---- MODULE Spec2Model ----
(***************************************************************************)
(* A model of VideoEmbeddingExtractor: main.py (main, process_video,       *)
(* dedup_words, cleanup_folders), config.py (Config) and utils.py          *)
(* (calculate_frame_info, get_frames, extract_text, save_results).         *)
(*                                                                         *)
(* Python strings are sequences of one-character strings, so that split,   *)
(* strip, lower, endswith, join and the code-point order of sorted() are   *)
(* computed character by character.  Times are in tenths of a second.      *)
(***************************************************************************)
EXTENDS Integers, Sequences, FiniteSets, TLC

VARIABLES
    pc,          \* position of the program: which call comes next
    run,         \* number of the program invocation (the file system outlives it)
    dirs,        \* file system: the directories that exist
    frameFiles,  \* file system: frames folder, a [name, run, idx] per file: who wrote it
    textFiles,   \* file system: text folder, the file names in it
    config,      \* the Config object of this invocation
    video_path,  \* [name, exists]: the path argument and whether it exists
    exit_status, \* exit status of the invocation, -1 while it runs
    io,          \* the kinds of I/O side effect this invocation has had
    log,         \* the log records written by this invocation: <<level, what>>
    frames,      \* get_frames' result / extract_text's argument
    i,           \* extract_text: index of the frame being processed
    j,           \* extract_text: index of the language being processed
    frame_text,  \* extract_text: the retained per-language results of this frame
    text,        \* extract_text: the per-video text collection
    visits,      \* history: what happened to each frame extract_text visited
    texts,       \* dedup_words: its argument
    words,       \* dedup_words: its result
    probe,       \* calculate_frame_info: [duration, frame_gap] it is called on
    sched,       \* calculate_frame_info: its result, or a marker
    imageFiles,  \* file system: the pixels of each image file, by path
    call,        \* preprocess_image: [image_path, debug, debug_folder, pixels] it is called on
    returned     \* preprocess_image: what each call so far returned or raised

vars == <<pc, run, dirs, frameFiles, textFiles, config, video_path, exit_status,
          io, log, frames, i, j, frame_text, text, visits, texts, words, probe,
          sched, imageFiles, call, returned>>

image_vars == <<imageFiles, call, returned>>

----------------------------------------------------------------------------
(* Bounds of the model. *)

\* longest frame text drawn for dedup_words
MaxLen == 2
\* most frame texts passed to dedup_words
MaxTexts == 2
\* longest video duration drawn for calculate_frame_info, in tenths of a second
MaxDuration == 1000
\* most frames the decoder writes in one invocation
MaxEmit == 2
\* most invocations of the program on one file system
MaxRuns == 2

----------------------------------------------------------------------------
(* Characters and strings. *)

UpperChars == <<"A","B","C","D","E","F","G","H","I","J","K","L","M","N","O","P",
                "Q","R","S","T","U","V","W","X","Y","Z">>
LowerChars == <<"a","b","c","d","e","f","g","h","i","j","k","l","m","n","o","p",
                "q","r","s","t","u","v","w","x","y","z">>
DigitChars == <<"0","1","2","3","4","5","6","7","8","9">>

IndexIn(c, s) == CHOOSE k \in 1..Len(s) : s[k] = c
IsIn(c, s) == \E k \in 1..Len(s) : s[k] = c

\* ord(c): the code point of a character
Ord(c) ==
    IF IsIn(c, UpperChars) THEN 64 + IndexIn(c, UpperChars)
    ELSE IF IsIn(c, LowerChars) THEN 96 + IndexIn(c, LowerChars)
    ELSE IF IsIn(c, DigitChars) THEN 47 + IndexIn(c, DigitChars)
    ELSE CASE c = "\t" -> 9
           [] c = "\n" -> 10
           [] c = " "  -> 32
           [] c = "+"  -> 43
           [] c = "-"  -> 45
           [] c = "."  -> 46
           [] c = "_"  -> 95

\* str.isspace() of one character
IsSpace(c) == c \in {" ", "\n", "\t", "\r"}

\* str.lower() of one character, and of a string
LowerChar(c) == IF IsIn(c, UpperChars) THEN LowerChars[IndexIn(c, UpperChars)] ELSE c
Lower(s) == [k \in 1..Len(s) |-> LowerChar(s[k])]

\* s.endswith(suffix)
EndsWith(s, suffix) ==
    /\ Len(suffix) <= Len(s)
    /\ SubSeq(s, Len(s) - Len(suffix) + 1, Len(s)) = suffix

\* s.strip(): s without its leading and trailing whitespace
RECURSIVE LStrip(_)
LStrip(s) == IF s # <<>> /\ IsSpace(Head(s)) THEN LStrip(Tail(s)) ELSE s
RECURSIVE RStrip(_)
RStrip(s) ==
    IF s # <<>> /\ IsSpace(s[Len(s)]) THEN RStrip(SubSeq(s, 1, Len(s) - 1)) ELSE s
strip(s) == RStrip(LStrip(s))

\* s.split(): the maximal runs of non-whitespace characters, left to right.
\* cur is the token being read, out the tokens read so far.
RECURSIVE SplitFrom(_, _, _)
SplitFrom(s, cur, out) ==
    IF s = <<>> THEN (IF cur = <<>> THEN out ELSE Append(out, cur))
    ELSE IF IsSpace(Head(s))
         THEN SplitFrom(Tail(s), <<>>, IF cur = <<>> THEN out ELSE Append(out, cur))
         ELSE SplitFrom(Tail(s), Append(cur, Head(s)), out)
split(s) == SplitFrom(s, <<>>, <<>>)

\* sep.join(parts)
RECURSIVE join(_, _)
join(sep, parts) ==
    IF parts = <<>> THEN <<>>
    ELSE IF Len(parts) = 1 THEN parts[1]
    ELSE parts[1] \o sep \o join(sep, Tail(parts))

\* a < b for two strings: Python compares code point by code point, and a
\* proper prefix is smaller
RECURSIVE StrLess(_, _)
StrLess(a, b) ==
    IF b = <<>> THEN FALSE
    ELSE IF a = <<>> THEN TRUE
    ELSE IF Ord(Head(a)) # Ord(Head(b)) THEN Ord(Head(a)) < Ord(Head(b))
    ELSE StrLess(Tail(a), Tail(b))

\* sorted() with reverse=True: largest first
RECURSIVE sorted_desc(_)
sorted_desc(S) ==
    IF S = {} THEN <<>>
    ELSE LET m == CHOOSE x \in S : \A y \in S \ {x} : StrLess(y, x)
         IN  <<m>> \o sorted_desc(S \ {m})
\* sorted(list(S)) for a set S of strings: ascending, smallest first
RECURSIVE sorted(_)
sorted(S) ==
    IF S = {} THEN <<>>
    ELSE LET m == CHOOSE x \in S : \A y \in S \ {x} : StrLess(x, y)
         IN  <<m>> \o sorted(S \ {m})

Range(s) == {s[k] : k \in 1..Len(s)}

----------------------------------------------------------------------------
(* main.py: dedup_words *)

\* the loop of dedup_words: wordSet after the texts from position k on
RECURSIVE dedup_loop(_, _, _)
dedup_loop(ts, k, wordSet) ==
    IF k > Len(ts) THEN wordSet
    ELSE IF strip(ts[k]) # <<>>
         THEN dedup_loop(ts, k + 1, wordSet \cup Range(split(ts[k])))
         ELSE dedup_loop(ts, k + 1, wordSet)

\* a dedup_words that keeps the words in the order it first met them
RECURSIVE first_seen(_, _, _)
first_seen(ts, k, out) ==
    IF k > Len(ts) THEN out
    ELSE LET ws == split(ts[k])
             add[n \in 0..Len(ws)] ==
                 IF n = 0 THEN out
                 ELSE IF ws[n] \in Range(add[n - 1]) THEN add[n - 1]
                      ELSE Append(add[n - 1], ws[n])
         IN  first_seen(ts, k + 1, add[Len(ws)])
dedup_words_first_seen(ts) == first_seen(ts, 1, <<>>)

dedup_words(ts) == sorted(dedup_loop(ts, 1, {}))

----------------------------------------------------------------------------
(* utils.py: calculate_frame_info *)

Abs(n) == IF n < 0 THEN -n ELSE n

\* int(a / b): Python's int() of a quotient drops the fraction, towards zero
IntOfQuotient(a, b) ==
    IF (a < 0) = (b < 0) THEN Abs(a) \div Abs(b) ELSE -(Abs(a) \div Abs(b))

\* str(n) of an integer
RECURSIVE StrNat(_)
StrNat(n) == IF n < 10 THEN <<DigitChars[n + 1]>>
             ELSE Append(StrNat(n \div 10), DigitChars[(n % 10) + 1])
StrInt(n) == IF n < 0 THEN <<"-">> \o StrNat(-n) ELSE StrNat(n)

\* lines 37 and 40
num_frames_of(duration, frame_gap) == IntOfQuotient(duration, frame_gap)
num_digits_of(num_frames) == Len(StrInt(num_frames))

Raised == [ok |-> FALSE, duration |-> 0, num_frames |-> 0, num_digits |-> 0]

\* The probe either fails or reports a duration; a zero frame_gap raises
\* ZeroDivisionError at line 37.  Every exception is logged and re-raised.
calculate_frame_info(probe_ok, duration, frame_gap) ==
    IF ~probe_ok \/ frame_gap = 0 THEN Raised
    ELSE [ok |-> TRUE, duration |-> duration,
          num_frames |-> num_frames_of(duration, frame_gap),
          num_digits |-> num_digits_of(num_frames_of(duration, frame_gap))]

----------------------------------------------------------------------------
(* The inputs of one invocation. *)

S_eng == <<"e","n","g">>
S_chi == <<"c","h","i">>
S_deu == <<"d","e","u">>
S_jpg == <<".","j","p","g">>

\* the language data files Tesseract may have installed
Installations == {{S_eng, S_chi}, {S_eng}}

\* --languages values: each a string, parts joined by "+"
LanguageArgs ==
    { <<S_eng>>, <<S_eng, S_chi>>, <<S_chi \o <<"+">> \o S_eng>>, <<S_deu>>,
      <<S_eng, S_eng \o <<"+">> \o S_deu>> }

\* video path arguments
VideoNames ==
    { <<"a",".","m","p","4">>, <<"a",".","M","P","4">>, <<"a",".","M","k","v">>,
      <<"a",".","a","v","i">>, <<"a",".","m","o","v">>, <<"a",".","t","x","t">>,
      <<"m","p","4">>, <<"a",".","m","p","4","x">>, <<".","m","k","v">> }

DefaultVideo == [name |-> <<"a",".","m","p","4">>, exists |-> TRUE]
\* --frame-gap values, in tenths of a second: argparse takes any float, so
\* the default, zero and a negative gap
FrameGapArgs == {50, 0, -50}

ArgsOf(v, gap, sf, st, dbg, langs) ==
    [video |-> v, frame_gap |-> gap, save_frames |-> sf, save_frame_text |-> st,
     debug |-> dbg, languages |-> langs]

\* The command lines drawn: every video path, every frame gap, every
\* combination of the flags and every language list, each with the other
\* options at their defaults.
RunArgs ==
    { ArgsOf([name |-> n, exists |-> e], 50, FALSE, FALSE, FALSE, <<S_eng>>) :
        n \in VideoNames, e \in BOOLEAN }
    \cup { ArgsOf(DefaultVideo, g, FALSE, FALSE, FALSE, <<S_eng>>) : g \in FrameGapArgs }
    \cup { ArgsOf(DefaultVideo, 50, f[1], f[2], f[3], <<S_eng>>) :
            f \in BOOLEAN \X BOOLEAN \X BOOLEAN }
    \cup { ArgsOf(DefaultVideo, 50, FALSE, FALSE, FALSE, l) : l \in LanguageArgs }

\* durations the probe may report, in tenths of a second
Durations == {0, 200}

\* what one OCR call may return; ok = FALSE is a call that raises
OcrTexts == { <<>>, <<" ", "\n">>, <<"a">>, <<"B", " ", "a", "\n">> }
OcrOutcomes == {[ok |-> FALSE, text |-> <<>>]} \cup {[ok |-> TRUE, text |-> t] : t \in OcrTexts}

----------------------------------------------------------------------------
(* config.py: Config *)

\* s.split(sep) for a one-character separator
RECURSIVE SplitOn(_, _, _, _)
SplitOn(s, sep, cur, out) ==
    IF s = <<>> THEN Append(out, cur)
    ELSE IF Head(s) = sep THEN SplitOn(Tail(s), sep, <<>>, Append(out, cur))
         ELSE SplitOn(Tail(s), sep, Append(cur, Head(s)), out)

\* lines 47-55: some part of some language is not installed
missing_langs(languages, installed) ==
    \E k \in 1..Len(languages) :
        \E part \in Range(SplitOn(languages[k], "+", <<>>, <<>>)) : part \notin installed

\* _validate_languages raises ValueError: get_languages failed, or a part is missing
validate_raises(languages, tess_ok, installed) ==
    ~tess_ok \/ missing_langs(languages, installed)

\* lines 29-34: the directories __post_init__ makes sure exist
post_init_dirs(debug) == {"frames", "text"} \cup (IF debug THEN {"debug"} ELSE {})

----------------------------------------------------------------------------
(* main.py: cleanup_folders, and the end of main *)

cleanup_dirs(cfg, ds) ==
    (ds \ (IF ~cfg.save_frames THEN {"frames"} ELSE {}))
        \ (IF ~cfg.save_frame_text THEN {"text"} ELSE {})
cleanup_frames(cfg, ds, ff) ==
    IF ~cfg.save_frames /\ "frames" \in ds THEN {} ELSE ff
cleanup_text(cfg, ds, tf) ==
    IF ~cfg.save_frame_text /\ "text" \in ds THEN {} ELSE tf
cleanup_io(cfg, ds) ==
    IF (~cfg.save_frames /\ "frames" \in ds) \/ (~cfg.save_frame_text /\ "text" \in ds)
    THEN {"rmtree"} ELSE {}

\* lines 173-178: the checks of the video path
VideoExtensions == { <<".","m","p","4">>, <<".","a","v","i">>,
                     <<".","m","o","v">>, <<".","m","k","v">> }
\* line 176 without lower(): the extension is compared as written
has_video_extension_exact(name) == \E e \in VideoExtensions : EndsWith(name, e)
\* line 176
has_video_extension(name) == \E e \in VideoExtensions : EndsWith(Lower(name), e)

----------------------------------------------------------------------------
(* Initial states. *)

NoConfig == [frame_gap |-> 50, save_frames |-> FALSE, save_frame_text |-> FALSE,
             debug |-> FALSE, languages |-> <<>>]

\* everything an invocation starts with, the file system apart
FreshRun ==
    /\ config = NoConfig
    /\ video_path = DefaultVideo
    /\ exit_status = -1
    /\ io = {}
    /\ log = {}
    /\ frames = <<>>
    /\ i = 0
    /\ j = 0
    /\ frame_text = <<>>
    /\ text = <<>>
    /\ visits = <<>>
    /\ words = <<>>
    /\ sched = Raised

EmptyDisk ==
    /\ dirs = {}
    /\ frameFiles = {}
    /\ textFiles = {}

\* preprocess_image is not followed pixel by pixel in the other specifications
NoCall ==
    /\ imageFiles = <<>>
    /\ call = [image_path |-> <<>>, debug |-> FALSE, debug_folder |-> "debug"]
    /\ returned = <<>>

Init ==
    /\ pc = "main"
    /\ run = 1
    /\ EmptyDisk
    /\ FreshRun
    /\ texts = <<>>
    /\ probe = [duration |-> 0, frame_gap |-> 50]
    /\ NoCall

----------------------------------------------------------------------------
(* main.py: main, lines 116-178 *)

\* sys.exit(status) outside the try of line 180: nothing is cleaned up
Exit(status) ==
    /\ pc' = "done"
    /\ exit_status' = status

\* The exception path of lines 182-187: process_video has logged and re-raised,
\* main logs, exits with 1, and the finally clause cleans up.
FailVideo(what, ds, ff, extra_io) ==
    /\ log' = log \cup {<<"ERROR", what>>}
    /\ dirs' = cleanup_dirs(config, ds)
    /\ frameFiles' = cleanup_frames(config, ds, ff)
    /\ textFiles' = cleanup_text(config, ds, textFiles)
    /\ io' = io \cup extra_io \cup cleanup_io(config, ds)
    /\ Exit(1)

\* Parse the arguments, build the Config (directories first, then the
\* language check), set up logging, check the video path.
main ==
    /\ pc = "main"
    /\ \E args \in RunArgs, tess_ok \in BOOLEAN, installed \in Installations :
        LET made == post_init_dirs(args.debug) \ dirs
            mk   == IF made = {} THEN {} ELSE {"mkdir"}
            cfg  == [frame_gap |-> args.frame_gap, save_frames |-> args.save_frames,
                     save_frame_text |-> args.save_frame_text, debug |-> args.debug,
                     languages |-> args.languages]
        IN  /\ video_path' = args.video
            /\ dirs' = dirs \cup post_init_dirs(args.debug)
            /\ IF validate_raises(args.languages, tess_ok, installed)
               THEN \* Config() raised: line 192, no Config and no log file exist
                    /\ config' = NoConfig
                    /\ io' = mk
                    /\ log' = {<<"ERROR", "config">>}
                    /\ Exit(1)
               ELSE /\ config' = cfg
                    /\ io' = mk \cup {"open_log"}
                    /\ IF ~args.video.exists
                       THEN /\ log' = {<<"ERROR", "not_found">>}
                            /\ Exit(1)
                       ELSE IF ~has_video_extension(args.video.name)
                       THEN /\ log' = {<<"ERROR", "bad_format">>}
                            /\ Exit(1)
                       ELSE /\ log' = {}
                            /\ pc' = "process_video"
                            /\ exit_status' = -1
    /\ UNCHANGED <<run, frameFiles, textFiles, frames, i, j, frame_text, text,
                   visits, texts, words, probe, sched>>
    /\ UNCHANGED image_vars

----------------------------------------------------------------------------
(* utils.py: get_frames, called at main.py line 87 *)

\* "%0<w>d" % k
RECURSIVE ZeroPad(_, _)
ZeroPad(s, w) == IF Len(s) >= w THEN s ELSE ZeroPad(<<"0">> \o s, w)
frame_name(k, num_digits) == ZeroPad(StrInt(k), num_digits) \o S_jpg

\* the frames folder after the decoder wrote n frames, numbered from 0
decoded(ff, n, num_digits) ==
    LET new == {[name |-> frame_name(k, num_digits), run |-> run, idx |-> k] :
                   k \in 0..(n - 1)}
    IN  {f \in ff : \A g \in new : g.name # f.name} \cup new

\* the orders in which os.listdir may enumerate a set of names
Orders(S) ==
    {f \in [1..Cardinality(S) -> S] : \A a, b \in 1..Cardinality(S) : a # b => f[a] # f[b]}

\* lines 88-90: the .jpg names of the frames folder, as listdir enumerates them
listing(ff) == Orders({f.name : f \in {g \in ff : EndsWith(g.name, S_jpg)}})

get_frames ==
    /\ pc = "process_video"
    /\ \E probe_ok \in BOOLEAN, duration \in Durations,
          decode_ok \in BOOLEAN, n \in 0..MaxEmit :
        LET info == calculate_frame_info(probe_ok, duration, config.frame_gap)
            ff   == decoded(frameFiles, n, info.num_digits)
        IN  /\ IF ~info.ok
               THEN /\ frames' = <<>>
                    /\ FailVideo("frame_info", dirs, frameFiles, {"probe"})
               ELSE IF ~decode_ok
               THEN /\ frames' = <<>>
                    /\ FailVideo("ffmpeg", dirs, frameFiles, {"probe", "decode"})
               ELSE \E listed \in listing(ff) :
                    /\ frames' = listed
                    /\ IF listed = <<>>
                       THEN FailVideo("no_frames", dirs, ff, {"probe", "decode"})
                       ELSE /\ frameFiles' = ff
                            /\ io' = io \cup {"probe", "decode"}
                            /\ pc' = "extract_text"
                            /\ UNCHANGED <<dirs, textFiles, log, exit_status>>
    /\ i' = 1
    /\ UNCHANGED <<run, config, video_path, j, frame_text, text, visits, texts,
                   words, probe, sched>>
    /\ UNCHANGED image_vars

----------------------------------------------------------------------------
(* utils.py: extract_text, called at main.py line 92 *)

\* line 136 without its test: every result is kept
retained_always(lang_text) == TRUE
\* line 136: only a result that is non-empty after strip() is kept
retained(lang_text) == strip(lang_text) # <<>>

\* line 145
combined_text(ft) == join(<<"\n">>, ft)

\* lines 139-141: a failed OCR call is logged and the language loop continues
\* with the next language
after_lang_failure(jj) == jj + 1

\* lines 158-161 with break for continue: a failed frame ends the frame loop
after_frame_break(ii) == Len(frames) + 1
\* lines 158-161: a failed frame is logged and the frame loop continues with
\* the next frame
after_frame_failure(ii) == ii + 1

\* the frame loop has run out: extract_text returns text
next_pc(ii) == IF ii > Len(frames) THEN "extracted" ELSE "extract_text"

\* lines 117-125: the head of one iteration of the frame loop: the frame file
\* is looked up and preprocessed; either may fail
extract_frame ==
    /\ pc = "extract_text"
    /\ i <= Len(frames)
    /\ \E outcome \in {"missing", "preprocess_failed", "ocr"} :
        /\ visits' = Append(visits, [frame |-> frames[i], status |-> outcome,
                                     results |-> <<>>, appended |-> <<>>])
        /\ IF outcome = "ocr"
           THEN /\ pc' = "ocr"
                /\ j' = 1
                /\ frame_text' = <<>>
                /\ UNCHANGED <<i, log>>
           ELSE /\ log' = log \cup {<<"ERROR", "frame">>}
                /\ i' = after_frame_failure(i)
                /\ pc' = next_pc(i')
                /\ UNCHANGED <<j, frame_text>>
    /\ UNCHANGED <<run, dirs, frameFiles, textFiles, config, video_path, exit_status,
                   io, frames, text, texts, words, probe, sched>>
    /\ UNCHANGED image_vars

\* lines 129-141: one iteration of the language loop
extract_lang ==
    /\ pc = "ocr"
    /\ j <= Len(config.languages)
    /\ \E r \in OcrOutcomes :
        /\ visits' = [visits EXCEPT ![Len(visits)].results = Append(@, r)]
        /\ IF r.ok
           THEN /\ frame_text' = IF retained(r.text) THEN Append(frame_text, r.text)
                                 ELSE frame_text
                /\ j' = j + 1
                /\ log' = log
           ELSE /\ log' = log \cup {<<"WARNING", "lang">>}
                /\ j' = after_lang_failure(j)
                /\ frame_text' = frame_text
    /\ UNCHANGED <<pc, run, dirs, frameFiles, textFiles, config, video_path,
                   exit_status, io, frames, i, text, texts, words, probe, sched>>
    /\ UNCHANGED image_vars

\* lines 143-156: the end of one iteration of the frame loop
extract_frame_end ==
    /\ pc = "ocr"
    /\ j > Len(config.languages)
    /\ IF frame_text # <<>>
       THEN /\ text' = Append(text, combined_text(frame_text))
            /\ visits' = [visits EXCEPT ![Len(visits)].appended =
                                            <<combined_text(frame_text)>>]
            /\ IF config.save_frame_text
               THEN /\ textFiles' = textFiles \cup {frames[i]}
                    /\ io' = io \cup {"write_text"}
               ELSE UNCHANGED <<textFiles, io>>
            /\ log' = log
       ELSE /\ log' = log \cup {<<"WARNING", "frame_no_text">>}
            /\ UNCHANGED <<text, visits, textFiles, io>>
    /\ i' = i + 1
    /\ pc' = next_pc(i')
    /\ UNCHANGED <<run, dirs, frameFiles, config, video_path, exit_status, frames,
                   j, frame_text, texts, words, probe, sched>>
    /\ UNCHANGED image_vars

----------------------------------------------------------------------------
(* main.py: process_video lines 93-110, and main lines 182-190 *)

\* process_video returned: the finally clause cleans up, main ends with status 0
ReturnFromVideo(extra_io) ==
    /\ dirs' = cleanup_dirs(config, dirs)
    /\ frameFiles' = cleanup_frames(config, dirs, frameFiles)
    /\ textFiles' = cleanup_text(config, dirs, textFiles)
    /\ io' = io \cup extra_io \cup cleanup_io(config, dirs)
    /\ Exit(0)

\* line 93, "if not text", without the check
not_text_unchecked(t) == FALSE
\* line 93: "if not text"
not_text(t) == t = <<>>

process_video_end ==
    /\ pc = "extracted"
    /\ IF not_text(text)
       THEN /\ log' = log \cup {<<"WARNING", "no_text">>}
            /\ words' = <<>>
            /\ ReturnFromVideo({})
       ELSE /\ words' = dedup_words(text)
            /\ IF words' = <<>>
               THEN /\ log' = log \cup {<<"WARNING", "no_words">>}
                    /\ ReturnFromVideo({})
               ELSE \E saved \in BOOLEAN :
                    IF saved
                    THEN /\ log' = log \cup {<<"INFO", "completed">>}
                         /\ ReturnFromVideo({"write_output"})
                    ELSE FailVideo("save_results", dirs, frameFiles, {})
    /\ UNCHANGED <<run, config, video_path, frames, i, j, frame_text, text, visits,
                   texts, probe, sched>>
    /\ UNCHANGED image_vars

\* the program is invoked again, on the file system the last invocation left
next_run ==
    /\ pc = "done"
    /\ run < MaxRuns
    /\ run' = run + 1
    /\ pc' = "main"
    /\ config' = NoConfig
    /\ video_path' = DefaultVideo
    /\ exit_status' = -1
    /\ io' = {}
    /\ log' = {}
    /\ frames' = <<>>
    /\ i' = 0
    /\ j' = 0
    /\ frame_text' = <<>>
    /\ text' = <<>>
    /\ visits' = <<>>
    /\ words' = <<>>
    /\ UNCHANGED <<dirs, frameFiles, textFiles, texts, probe, sched>>
    /\ UNCHANGED image_vars

Next ==
    \/ main
    \/ get_frames
    \/ extract_frame
    \/ extract_lang
    \/ extract_frame_end
    \/ process_video_end
    \/ next_run

\* invocation after invocation, each on the file system the last one left
Spec == Init /\ [][Next]_vars

NextOneRun ==
    \/ main
    \/ get_frames
    \/ extract_frame
    \/ extract_lang
    \/ extract_frame_end
    \/ process_video_end

\* one invocation, on a file system without frames, text or debug folders
SpecOneRun == Init /\ [][NextOneRun]_vars

----------------------------------------------------------------------------
(* dedup_words on its own: every short sequence of short frame texts, and  *)
(* the frame texts "cat dog", "dog bird", "".                              *)

Alphabet == {" ", "B", "a"}
StringsUpTo(n) == UNION {[1..m -> Alphabet] : m \in 0..n}

CatDogBird == << <<"c","a","t"," ","d","o","g">>,
                 <<"d","o","g"," ","b","i","r","d">>,
                 <<>> >>
JoinedTexts == << <<"B","\n","a">>, <<" ","a","\t","\n">> >>
Runs == << <<"a"," "," ","B"," ","a">>, <<" ","\n"," ">>, <<"B","a"," ","B">>,
           <<"a","B","a">> >>

DedupExamples == {CatDogBird, JoinedTexts, Runs}

InitDedup ==
    /\ pc = "dedup_words"
    /\ run = 1
    /\ EmptyDisk
    /\ FreshRun
    /\ \/ \E n \in 0..MaxTexts : texts \in [1..n -> StringsUpTo(MaxLen)]
       \/ texts \in DedupExamples
    /\ probe = [duration |-> 0, frame_gap |-> 50]
    /\ NoCall

call_dedup_words ==
    /\ pc = "dedup_words"
    /\ words' = dedup_words(texts)
    /\ pc' = "dedup_returned"
    /\ UNCHANGED <<run, dirs, frameFiles, textFiles, config, video_path, exit_status,
                   io, log, frames, i, j, frame_text, text, visits, texts, probe,
                   sched>>
    /\ UNCHANGED image_vars

NextDedup == call_dedup_words

SpecDedup == InitDedup /\ [][NextDedup]_vars

----------------------------------------------------------------------------
(* calculate_frame_info on its own: every duration up to MaxDuration and   *)
(* frame gaps of either sign, in tenths of a second.                       *)

FrameGaps == {-50, -1, 0, 1, 3, 50, 70}

InitFrameInfo ==
    /\ pc = "calculate_frame_info"
    /\ run = 1
    /\ EmptyDisk
    /\ FreshRun
    /\ texts = <<>>
    /\ probe \in [duration : 0..MaxDuration, frame_gap : FrameGaps]
    /\ NoCall

call_calculate_frame_info ==
    /\ pc = "calculate_frame_info"
    /\ \E probe_ok \in BOOLEAN :
        sched' = calculate_frame_info(probe_ok, probe.duration, probe.frame_gap)
    /\ pc' = "frame_info_returned"
    /\ UNCHANGED <<run, dirs, frameFiles, textFiles, config, video_path, exit_status,
                   io, log, frames, i, j, frame_text, text, visits, texts, words,
                   probe>>
    /\ UNCHANGED image_vars

NextFrameInfo == call_calculate_frame_info

SpecFrameInfo == InitFrameInfo /\ [][NextFrameInfo]_vars

----------------------------------------------------------------------------
(* utils.py: preprocess_image, lines 189-259, on its own.                  *)
(*                                                                         *)
(* An image is one row of pixels; a colour pixel is <<b, g, r>>, a gray    *)
(* pixel a number in 0..255.  A file is represented by the pixels that     *)
(* cv2.imread decodes from it, and a path by <<folder, file name>>.  The   *)
(* cv2 calls are computed as OpenCV documents them, restricted to one row. *)

ImageWidth == 6
MaxCalls == 2

Black == <<0, 0, 0>>
White == <<255, 255, 255>>
Blue == <<255, 0, 0>>
PixelColours == {Black, White, Blue}
FrameImages == [1..ImageWidth -> PixelColours]

\* cv2.COLOR_BGR2GRAY on 8-bit pixels: fixed-point 0.299 R + 0.587 G + 0.114 B
cvtColor_BGR2GRAY(image) ==
    [x \in 1..Len(image) |->
        (4899 * image[x][3] + 9617 * image[x][2] + 1868 * image[x][1] + 8192)
            \div 16384]

RECURSIVE SumSeq(_)
SumSeq(s) == IF s = <<>> THEN 0 ELSE s[1] + SumSeq(Tail(s))

\* between-class variance of the split at t, as a fraction num / den
otsu_sigma(gray, t) ==
    LET low == [x \in 1..Len(gray) |-> IF gray[x] <= t THEN gray[x] ELSE 0]
        q1 == Cardinality({x \in 1..Len(gray) : gray[x] <= t})
        q2 == Len(gray) - q1
        s1 == SumSeq(low)
        s2 == SumSeq(gray) - s1
        d == s1 * q2 - s2 * q1
    IN  IF q1 = 0 \/ q2 = 0
        THEN [num |-> 0, den |-> 1]
        ELSE [num |-> d * d, den |-> q1 * q2]

\* cv2.THRESH_OTSU: the least level whose split has the greatest variance,
\* 0 when no level splits the pixels.  The variance only changes at the
\* levels that occur, so those and 0 are the candidates.
otsu(gray) ==
    LET levels == {0} \cup Range(gray)
        greater(a, b) == a.num * b.den > b.num * a.den
        best == {t \in levels :
                    \A u \in levels :
                        ~greater(otsu_sigma(gray, u), otsu_sigma(gray, t))}
    IN  CHOOSE t \in best : \A u \in best : t <= u

\* cv2.threshold(gray, 0, 255, THRESH_BINARY_INV + THRESH_OTSU)[1]
threshold(gray) ==
    LET t == otsu(gray)
    IN  [x \in 1..Len(gray) |-> IF gray[x] > t THEN 0 ELSE 255]

\* one pass of a 3x3 all-ones kernel: the greatest neighbour, borders ignored
dilate_once(img) ==
    [x \in 1..Len(img) |->
        LET near == {img[y] : y \in {z \in 1..Len(img) : Abs(z - x) <= 1}}
        IN  CHOOSE v \in near : \A w \in near : w <= v]

RECURSIVE dilate(_, _)
dilate(img, iterations) ==
    IF iterations = 0 THEN img ELSE dilate(dilate_once(img), iterations - 1)

\* cv2.findContours(RETR_EXTERNAL, CHAIN_APPROX_SIMPLE): one contour per
\* connected run of non-zero pixels, given by its two end points
findContours(img) ==
    {c \in (1..Len(img)) \X (1..Len(img)) :
        /\ c[1] <= c[2]
        /\ \A x \in c[1]..c[2] : img[x] # 0
        /\ c[1] = 1 \/ img[c[1] - 1] = 0
        /\ c[2] = Len(img) \/ img[c[2] + 1] = 0}

\* cv2.drawContours(image, contours, -1, color, thickness): every contour is
\* stroked, the stroke reaching thickness \div 2 pixels beyond the line
drawContours(image, contours, color, thickness) ==
    [x \in 1..Len(image) |->
        IF \E c \in contours :
               c[1] - (thickness \div 2) <= x /\ x <= c[2] + (thickness \div 2)
        THEN color
        ELSE image[x]]

\* cv2.COLOR_BGR2RGB, and cv2.COLOR_RGB2BGR: the same swap
cvtColor_BGR2RGB(image) ==
    [x \in 1..Len(image) |-> <<image[x][3], image[x][2], image[x][1]>>]

cvtColor_RGB2BGR(image) == cvtColor_BGR2RGB(image)

S_original == <<"_","o","r","i","g","i","n","a","l">> \o S_jpg
S_gray == <<"_","g","r","a","y">> \o S_jpg
S_thresh == <<"_","t","h","r","e","s","h">> \o S_jpg
S_dilate == <<"_","d","i","l","a","t","e">> \o S_jpg
S_contours == <<"_","c","o","n","t","o","u","r","s">> \o S_jpg
S_final == <<"_","f","i","n","a","l">> \o S_jpg

\* a debug file written where the frame was read from
debug_path_in_place(debug_folder, image_path, suffix) == image_path

\* os.path.join(config.debug_folder, f"{os.path.basename(image_path)}<suffix>")
debug_path(debug_folder, image_path, suffix) ==
    <<debug_folder, image_path[2] \o suffix>>

\* cv2.imwrite(path, img): the file at path is created or replaced
imwrite(files, path, img) ==
    [p \in DOMAIN files \cup {path} |-> IF p = path THEN img ELSE files[p]]

\* the frame get_frames numbers 0, in the frames folder (config.py, line 24)
FramePath == <<"frames", frame_name(0, 1)>>

InitPreprocess ==
    /\ pc = "preprocess_image"
    /\ run = 1
    /\ FreshRun
    /\ texts = <<>>
    /\ probe = [duration |-> 0, frame_gap |-> 50]
    /\ frameFiles = {}
    /\ textFiles = {}
    /\ \E debug \in BOOLEAN :
        /\ call = [image_path |-> FramePath, debug |-> debug,
                   debug_folder |-> "debug"]
        /\ dirs = post_init_dirs(debug)
    /\ \/ imageFiles = <<>>
       \/ \E pixels \in FrameImages : imageFiles = [p \in {FramePath} |-> pixels]
    /\ returned = <<>>

\* one call of preprocess_image(call.image_path, config), lines 204-259
preprocess_image ==
    /\ pc = "preprocess_image"
    /\ Len(returned) < MaxCalls
    /\ IF call.image_path \notin DOMAIN imageFiles
       THEN \* lines 207-208, 257-259: imread gives None, ValueError is raised
            /\ returned' = Append(returned, [raised |-> TRUE, read |-> <<>>,
                                             image_rgb |-> <<>>])
            /\ UNCHANGED imageFiles
       ELSE LET image == imageFiles[call.image_path]
                gray == cvtColor_BGR2GRAY(image)
                thresh == threshold(gray)
                dilated == dilate(thresh, 2)
                contours == findContours(dilated)
                drawn == drawContours(image, contours, <<0, 0, 255>>, 3)
                image_rgb == cvtColor_BGR2RGB(drawn)
                path(suffix) ==
                    debug_path(call.debug_folder, call.image_path, suffix)
                f1 == imwrite(imageFiles, path(S_original), image)
                f2 == imwrite(f1, path(S_gray), gray)
                f3 == imwrite(f2, path(S_thresh), thresh)
                f4 == imwrite(f3, path(S_dilate), dilated)
                f5 == imwrite(f4, path(S_contours), drawn)
                f6 == imwrite(f5, path(S_final), cvtColor_RGB2BGR(image_rgb))
            IN  /\ imageFiles' = IF call.debug THEN f6 ELSE imageFiles
                /\ returned' = Append(returned, [raised |-> FALSE, read |-> image,
                                                 image_rgb |-> image_rgb])
    /\ UNCHANGED <<pc, run, dirs, frameFiles, textFiles, config, video_path,
                   exit_status, io, log, frames, i, j, frame_text, text, visits,
                   texts, words, probe, sched, call>>

NextPreprocess == preprocess_image

SpecPreprocess == InitPreprocess /\ [][NextPreprocess]_vars

----------------------------------------------------------------------------
(* The properties. *)

\* a sorts before b in lexical order of code points
LexBefore(a, b) ==
    \E n \in 0..Len(a) :
        /\ n <= Len(b)
        /\ \A k \in 1..n : a[k] = b[k]
        /\ \/ n = Len(a) /\ n < Len(b)
           \/ n < Len(a) /\ n < Len(b) /\ Ord(a[n + 1]) < Ord(b[n + 1])

\* the whitespace-delimited, non-empty tokens of the text t: the stretches
\* without whitespace that whitespace or an end of t bounds on either side
TokensIn(t) ==
    { SubSeq(t, ab[1], ab[2]) :
        ab \in { x \in (1..Len(t)) \X (1..Len(t)) :
                   /\ x[1] <= x[2]
                   /\ \A c \in x[1]..x[2] : ~IsSpace(t[c])
                   /\ (x[1] = 1 \/ IsSpace(t[x[1] - 1]))
                   /\ (x[2] = Len(t) \/ IsSpace(t[x[2] + 1])) } }
TokensOf(ts) == UNION { TokensIn(ts[k]) : k \in 1..Len(ts) }

\* C1: what dedup_words returns is sorted in code-point order, holds no token
\* twice, holds exactly the whitespace-delimited non-empty tokens of the frame
\* texts, unchanged, and is empty when every text is empty or whitespace.
C1_DedupSortedUniqueTokens ==
    pc = "dedup_returned" =>
        /\ \A a, b \in 1..Len(words) : a < b => LexBefore(words[a], words[b])
        /\ \A a, b \in 1..Len(words) : a # b => words[a] # words[b]
        /\ Range(words) = TokensOf(texts)
        /\ (\A k \in 1..Len(texts) : \A c \in 1..Len(texts[k]) : IsSpace(texts[k][c]))
            => words = <<>>

C1_Witness ==
    /\ pc = "dedup_returned"
    /\ texts = CatDogBird
    /\ words = << <<"b","i","r","d">>, <<"c","a","t">>, <<"d","o","g">> >>

\* C2: dedup_words returns the same sequence for every permutation of its
\* argument.
C2_DedupOrderIndependent ==
    pc = "dedup_returned" =>
        \A p \in Orders(1..Len(texts)) :
            dedup_words([k \in 1..Len(texts) |-> texts[p[k]]]) = words

C2_Witness ==
    /\ pc = "dedup_returned"
    /\ texts = << <<"a">>, <<"B", "a">> >>
    /\ words = << <<"B", "a">>, <<"a">> >>

\* t holds a character that is not whitespace
NonBlank(t) == \E k \in 1..Len(t) : ~IsSpace(t[k])
\* the OCR results of one frame that count: the call returned, with text
Kept(results) == SelectSeq(results, LAMBDA r : r.ok /\ NonBlank(r.text))
\* the kept results, in order, with one newline between neighbours
ExpectedFrameText(results) ==
    LET kept == Kept(results)
        flat[n \in 0..Len(kept)] ==
            IF n = 0 THEN <<>>
            ELSE IF n = 1 THEN kept[1].text
            ELSE flat[n - 1] \o <<"\n">> \o kept[n].text
    IN  flat[Len(kept)]
\* the visits whose frame has been dealt with
CompletedVisits == IF pc = "ocr" THEN Len(visits) - 1 ELSE Len(visits)

C5_FramesInNameOrder ==
    \A a, b \in 1..Len(frames) : a < b => LexBefore(frames[a], frames[b])

\* the video yielded no frames: the decoder ran and the frames folder is empty
NoFrames == "decode" \in io /\ <<"ERROR", "ffmpeg">> \notin log /\ frames = <<>>
\* the video yielded frames and no text
NoText == frames # <<>> /\ text = <<>>
\* the video yielded text and no words
NoWords == text # <<>> /\ dedup_words(text) = <<>>
\* an exception left process_video or main (a frame's error is logged and dropped)
AnyErrorLogged == \E r \in log : r[1] = "ERROR" /\ r[2] # "frame"
AnyWarningLogged == \E r \in log : r[1] = "WARNING"

C7_FramesOfThisRun ==
    pc \in {"extract_text", "ocr", "extracted"} =>
        \A k \in 1..Len(frames) :
            \A f \in frameFiles : f.name = frames[k] => f.run = run

\* C8: when the language list fails validation the invocation has had no
\* I/O side effect by the time the error is reported.
C8_ConfigErrorBeforeSideEffects ==
    (pc = "done" /\ <<"ERROR", "config">> \in log) => io = {}

\* c and d are the same letter, in whatever case, or the same character
SameIgnoringCase(c, d) ==
    c = d \/ \E k \in 1..Len(UpperChars) : {c, d} = {UpperChars[k], LowerChars[k]}
\* name ends in one of .mp4 .avi .mov .mkv, in any letter case
AcceptedExtension(name) ==
    \E e \in VideoExtensions :
        /\ Len(name) >= Len(e)
        /\ \A k \in 1..Len(e) : SameIgnoringCase(name[Len(name) - Len(e) + k], e[k])
\* process_video has been called in this invocation
ProcessVideoCalled == pc \in {"process_video", "extract_text", "ocr", "extracted"} \/ "probe" \in io

\* C9: a video path that does not exist or has no accepted extension ends
\* the invocation with status 1, with no probe, no decode and no output file;
\* a path that exists and has an accepted extension in any letter case is
\* passed to process_video once the Config is built.
C9_InputValidationGates ==
    pc \in {"process_video", "extract_text", "ocr", "extracted", "done"} =>
        /\ (~video_path.exists \/ ~AcceptedExtension(video_path.name)) =>
              /\ pc = "done"
              /\ exit_status = 1
              /\ io \cap {"probe", "decode", "write_output"} = {}
        /\ (/\ video_path.exists
            /\ AcceptedExtension(video_path.name)
            /\ <<"ERROR", "config">> \notin log) => ProcessVideoCalled

C9_Witness ==
    /\ pc = "process_video"
    /\ video_path.exists
    /\ video_path.name = <<"a",".","M","k","v">>

\* q is the floor of d / g
IsFloorOf(q, d, g) ==
    IF g > 0 THEN q * g <= d /\ d < (q + 1) * g
    ELSE q * g >= d /\ d > (q + 1) * g
\* k is the number of decimal digits of n
IsDigitCountOf(k, n) ==
    /\ k >= 1
    /\ n < 10 ^ k
    /\ (k = 1 \/ n >= 10 ^ (k - 1))

\* C10: every schedule calculate_frame_info returns has frame_count =
\* floor(duration / frame_gap) >= 0 and digit_width = the number of decimal
\* digits of frame_count, at least 1.
C10_ScheduleInvariant ==
    (pc = "frame_info_returned" /\ sched.ok) =>
        /\ IsFloorOf(sched.num_frames, probe.duration, probe.frame_gap)
        /\ sched.num_frames >= 0
        /\ IsDigitCountOf(sched.num_digits, sched.num_frames)
        /\ (probe.duration = 200 /\ probe.frame_gap = 50) =>
              (sched.num_frames = 4 /\ sched.num_digits = 1)

\* C11: every call of preprocess_image on the same frame reads the same
\* pixels and returns (or raises) the same as the first call did, and after
\* any number of calls, with debug on or off, the frame file still holds the
\* pixels that were read from it (a frame that could not be read is still
\* absent).
C11_PreprocessIsPure ==
    \A n \in 1..Len(returned) :
        /\ returned[n] = returned[1]
        /\ IF returned[n].raised
           THEN call.image_path \notin DOMAIN imageFiles
           ELSE /\ call.image_path \in DOMAIN imageFiles
                /\ imageFiles[call.image_path] = returned[n].read

\* two calls with debug on, on a frame in which a contour was stroked over a
\* blue pixel and a blue pixel outside the stroke was only channel-swapped,
\* with the debug files on disk
C11_Witness ==
    /\ Len(returned) = MaxCalls
    /\ call.debug
    /\ ~returned[2].raised
    /\ \E x, y \in 1..ImageWidth :
        /\ returned[2].read[x] = Blue
        /\ returned[2].image_rgb[x] = <<255, 0, 0>>
        /\ returned[2].read[y] = Blue
        /\ returned[2].image_rgb[y] = <<0, 0, 255>>
    /\ debug_path(call.debug_folder, call.image_path, S_contours)
            \in DOMAIN imageFiles

====
